---- MODULE Spec2Model ----
(***************************************************************************)
(* Model of lib/entitiescreator.js (jhipster-uml): createEntities turns    *)
(* the parsed classes and associations into JHipster entities.             *)
(*                                                                         *)
(* A JavaScript string is a sequence of one-character strings, so that     *)
(* lowerFirst, camelCase and extractField are computed character by        *)
(* character.  A falsy descriptor (undefined, null or '') is <<>>: the     *)
(* source only ever tests descriptors for truthiness.  A JavaScript object *)
(* is a record whose DOMAIN is the set of properties that were assigned.   *)
(*                                                                         *)
(* createEntities is followed step by step: the call itself (merge, null   *)
(* check, init), checkNoSQLModeling, readJSONFiles, initializeEntities,    *)
(* then for each class the forEach callback of fillEntities up to the two  *)
(* id lists of setRelationshipOfEntity, one step per iteration of the from *)
(* loop and of the to loop, and at last the suppression and the return.    *)
(*                                                                         *)
(* What is not in the file: checkValidityOfAssociation either accepts or   *)
(* raises, and which is left open at every call; formatComment is kept as  *)
(* an uninterpreted term; isNoSQL and the cardinality constants follow the *)
(* documentation.  new Date() gives the same instant during one call.      *)
(* filterOutUnchangedEntities (lines 390-400) is never called and is not   *)
(* exported.  The variables callData, returned and emitted record history  *)
(* and are read by the properties only.                                    *)
(***************************************************************************)
EXTENDS Integers, Sequences, FiniteSets, TLC

(***************************************************************************)
(* Strings                                                                 *)
(***************************************************************************)
LowerLetters ==
  <<"a","b","c","d","e","f","g","h","i","j","k","l","m",
    "n","o","p","q","r","s","t","u","v","w","x","y","z">>

UpperLetters ==
  <<"A","B","C","D","E","F","G","H","I","J","K","L","M",
    "N","O","P","Q","R","S","T","U","V","W","X","Y","Z">>

IsLower(c) == \E i \in DOMAIN LowerLetters : LowerLetters[i] = c

IsUpper(c) == \E i \in DOMAIN UpperLetters : UpperLetters[i] = c

ToLowerChar(c) ==
  IF IsUpper(c)
  THEN LowerLetters[CHOOSE i \in DOMAIN UpperLetters : UpperLetters[i] = c]
  ELSE c

ToUpperChar(c) ==
  IF IsLower(c)
  THEN UpperLetters[CHOOSE i \in DOMAIN LowerLetters : LowerLetters[i] = c]
  ELSE c

\* String.prototype.toLowerCase
toLowerCase(s) == [i \in 1..Len(s) |-> ToLowerChar(s[i])]

\* _.lowerFirst: the first character in lower case, the rest untouched
lowerFirst(s) == IF s = <<>> THEN s ELSE <<ToLowerChar(s[1])>> \o Tail(s)

\* _.upperFirst
upperFirst(s) == IF s = <<>> THEN s ELSE <<ToUpperChar(s[1])>> \o Tail(s)

\* _.capitalize: upperFirst(toLower(s))
capitalize(s) == upperFirst(toLowerCase(s))

\* the length of the longest prefix of s, from position i, whose characters
\* all satisfy the class (lower when lower = TRUE, upper otherwise)
RECURSIVE RunEnd(_, _, _)
RunEnd(s, i, lower) ==
  IF i > Len(s) THEN i - 1
  ELSE IF (lower /\ IsLower(s[i])) \/ (~lower /\ IsUpper(s[i]))
       THEN RunEnd(s, i + 1, lower)
       ELSE i - 1

\* _.words on letters and separators: a word is Upper? lower+, or a run of
\* upper-case letters that stops before an Upper lower pair
RECURSIVE WordsFrom(_, _)
WordsFrom(s, i) ==
  IF i > Len(s) THEN <<>>
  ELSE IF IsLower(s[i])
       THEN LET j == RunEnd(s, i, TRUE)
            IN  <<SubSeq(s, i, j)>> \o WordsFrom(s, j + 1)
  ELSE IF IsUpper(s[i])
       THEN IF i < Len(s) /\ IsLower(s[i + 1])
            THEN LET j == RunEnd(s, i + 1, TRUE)
                 IN  <<SubSeq(s, i, j)>> \o WordsFrom(s, j + 1)
            ELSE LET j == RunEnd(s, i, FALSE)
                     k == IF j < Len(s) /\ IsLower(s[j + 1]) THEN j - 1 ELSE j
                 IN  <<SubSeq(s, i, k)>> \o WordsFrom(s, k + 1)
  ELSE WordsFrom(s, i + 1)

RECURSIVE JoinCamel(_, _)
JoinCamel(ws, first) ==
  IF ws = <<>> THEN <<>>
  ELSE (IF first THEN toLowerCase(Head(ws)) ELSE capitalize(Head(ws)))
       \o JoinCamel(Tail(ws), FALSE)

\* _.camelCase
camelCase(s) == JoinCamel(WordsFrom(s, 1), TRUE)

RECURSIVE Join(_, _)
\* Array.prototype.join
Join(strings, separator) ==
  IF strings = <<>> THEN <<>>
  ELSE IF Len(strings) = 1 THEN Head(strings)
  ELSE Head(strings) \o separator \o Join(Tail(strings), separator)

\* _.snakeCase
snakeCase(s) ==
  LET ws == WordsFrom(s, 1)
  IN  Join([i \in DOMAIN ws |-> toLowerCase(ws[i])], <<"_">>)

\* lib/helpers/comment_helper: the formatted comment, left uninterpreted
formatComment(comment) == [formatComment |-> comment]

\* the position of the first occurrence of c in s, 0 when there is none
IndexOf(s, c) ==
  IF \E i \in 1..Len(s) : s[i] = c
  THEN CHOOSE i \in 1..Len(s) : s[i] = c /\ \A j \in 1..(i - 1) : s[j] # c
  ELSE 0

\* String.prototype.replace(c, d) with a string pattern: the first
\* occurrence only; d is a string (possibly empty)
ReplaceFirst(s, c, d) ==
  LET i == IndexOf(s, c)
  IN  IF i = 0 THEN s
      ELSE SubSeq(s, 1, i - 1) \o d \o SubSeq(s, i + 1, Len(s))

\* String.prototype.split(c)
RECURSIVE Split(_, _)
Split(s, c) ==
  LET i == IndexOf(s, c)
  IN  IF i = 0 THEN <<s>>
      ELSE <<SubSeq(s, 1, i - 1)>> \o Split(SubSeq(s, i + 1, Len(s)), c)

\* extractField: "<relationshipName>(<otherEntityField>)"
extractField(field) ==
  IF field # <<>>
  THEN LET chunks == Split(ReplaceFirst(ReplaceFirst(field, "(", <<"/">>),
                                        ")", <<>>), "/")
       IN  [otherEntityField |-> IF Len(chunks) > 1 THEN chunks[2] ELSE <<"i","d">>,
            relationshipName |-> chunks[1]]
  ELSE [otherEntityField |-> <<"i","d">>, relationshipName |-> <<>>]

(***************************************************************************)
(* The changelog date                                                      *)
(***************************************************************************)
Digits == <<"0","1","2","3","4","5","6","7","8","9">>

\* '' + n for a non-negative integer n
RECURSIVE NumberToString(_)
NumberToString(n) ==
  IF n < 10 THEN <<Digits[n + 1]>>
  ELSE NumberToString(n \div 10) \o <<Digits[(n % 10) + 1]>>

\* if (x.length === 1) { x = `0${x}`; }
PadTwo(str) == IF Len(str) = 1 THEN <<"0">> \o str ELSE str

\* line 145 has no $ before the brace: the template is the literal text
\* 0{minute}
PadMinute(str) ==
  IF Len(str) = 1 THEN <<"0","{","m","i","n","u","t","e","}">> ELSE str

\* dateFormatForLiquibase: clock is what new Date() gives, as its UTC
\* year, month (1..12), day, hour, minute and second
dateFormatForLiquibase(clock, increment) ==
  NumberToString(clock.year)
    \o PadTwo(NumberToString(clock.month))
    \o PadTwo(NumberToString(clock.day))
    \o PadTwo(NumberToString(clock.hour))
    \o PadMinute(NumberToString(clock.minute))
    \o PadTwo(NumberToString((clock.second + increment) % 60))

\* getChangelogDate
getChangelogDate(onDisk, clock, classId, increment) ==
  IF classId \in DOMAIN onDisk
  THEN onDisk[classId].changelogDate
  ELSE dateFormatForLiquibase(clock, increment)

(***************************************************************************)
(* The parsed model: its classes, fields, types, enumerations and          *)
(* validations are fixed; the associations are the input that varies.      *)
(***************************************************************************)
USER == <<"u","s","e","r">>

ONE_TO_ONE == "one-to-one"

ONE_TO_MANY == "one-to-many"

MANY_TO_ONE == "many-to-one"

MANY_TO_MANY == "many-to-many"

Cardinalities == {ONE_TO_ONE, ONE_TO_MANY, MANY_TO_ONE, MANY_TO_MANY}

\* Object.keys(parsedData.classes), in insertion order
ClassIds == <<"c1", "c2", "c3">>

\* the keys an association map may hold, in insertion order
AssociationIds == <<"a1", "a2", "a3">>

\* how many associations the parsed model holds at most
MaxAssociations == 1

classes ==
  [c1 |-> [name |-> <<"A","u","t","h","o","r">>, fields |-> <<"f1", "f2">>,
           tableName |-> <<"B","o","o","k","A","u","t","h","o","r">>,
           comment |-> "who writes",
           dto |-> "no", pagination |-> "no", service |-> "no",
           microserviceName |-> "", searchEngine |-> "no"],
   c2 |-> [name |-> <<"U","s","e","r">>, fields |-> <<"f3">>,
           tableName |-> <<"U","s","e","r">>,
           comment |-> "",
           dto |-> "no", pagination |-> "no", service |-> "no",
           microserviceName |-> "", searchEngine |-> "no"],
   c3 |-> [name |-> <<"B","o","o","k">>, fields |-> <<"f4", "f5", "f6">>,
           tableName |-> <<"b","o","o","k">>,
           comment |-> "what is written",
           dto |-> "no", pagination |-> "pager", service |-> "no",
           microserviceName |-> "", searchEngine |-> "no"]]

types ==
  [String |-> [name |-> "String"],
   ImageBlob |-> [name |-> "ImageBlob"],
   AnyBlob |-> [name |-> "AnyBlob"]]

enums ==
  [Genre |-> [name |-> "Genre",
              values |-> <<(<<"S","F">>), (<<"C","R","I","M","E">>)>>]]

validations ==
  [v1 |-> [name |-> <<"r","e","q","u","i","r","e","d">>, value |-> 0],
   v2 |-> [name |-> <<"m","i","n","l","e","n","g","t","h">>, value |-> 3]]

fields ==
  [f1 |-> [name |-> <<"f","i","r","s","t","_","n","a","m","e">>,
           comment |-> "given name",
           type |-> "String", validations |-> <<"v1", "v2">>],
   f2 |-> [name |-> <<"p","h","o","t","o">>,
           comment |-> "",
           type |-> "ImageBlob", validations |-> <<>>],
   f3 |-> [name |-> <<"l","o","g","i","n">>,
           comment |-> "",
           type |-> "String", validations |-> <<"v1">>],
   f4 |-> [name |-> <<"T","i","t","l","e">>,
           comment |-> "",
           type |-> "String", validations |-> <<>>],
   f5 |-> [name |-> <<"g","e","n","r","e">>,
           comment |-> "",
           type |-> "Genre", validations |-> <<>>],
   f6 |-> [name |-> <<"s","c","a","n">>,
           comment |-> "",
           type |-> "AnyBlob", validations |-> <<>>]]

getClass(classId) == classes[classId]

getField(fieldId) == fields[fieldId]

getValidation(validationId) == validations[validationId]

\* the override collections of the call's args
listDTO == {<<"A","u","t","h","o","r">>}

listPagination == (<<"A","u","t","h","o","r">> :> "infinite-scroll")

listService == (<<"B","o","o","k">> :> "serviceClass")

microserviceNames == (<<"B","o","o","k">> :> "ms")

searchEngines == {<<"B","o","o","k">>}

\* the descriptors an association may carry on its two sides
FromDescriptors == {<<>>, <<"b","o","o","k","s">>}

ToDescriptors == {<<>>, <<"O","w","n","e","r","(","n","a","m","e",")">>}

Range(seq) == {seq[i] : i \in DOMAIN seq}

AssociationModels ==
  [from : Range(ClassIds), to : Range(ClassIds), type : Cardinalities,
   injectedFieldInFrom : FromDescriptors, injectedFieldInTo : ToDescriptors]

\* association maps with the keys a1..ak, k = 0..MaxAssociations
AssociationMaps ==
  UNION {[Range(SubSeq(AssociationIds, 1, k)) -> AssociationModels] :
           k \in 0..MaxAssociations}

\* Object.keys(obj) for an object whose keys were inserted in the given order
Keys(obj, order) == SelectSeq(order, LAMBDA k : k \in DOMAIN obj)

\* the storage types; isNoSQL is lib/types/types_helper
DatabaseTypes == {"sql", "mongodb"}

isNoSQL(types_) == types_ = "mongodb"

Clock0 == [year |-> 2016, month |-> 3, day |-> 9, hour |-> 14, minute |-> 25,
           second |-> 10]

\* clocks with a one-digit minute and with seconds that overflow
Clocks ==
  {Clock0,
   [Clock0 EXCEPT !.minute = 5],
   [Clock0 EXCEPT !.second = 59],
   [Clock0 EXCEPT !.second = 58, !.month = 11]}

SnapshotDate == <<"2","0","1","5","0","1","0","1","0","0","0","0","0","0">>

\* what .jhipster/ may hold: the classes that have a snapshot file, each
\* file with the changelogDate SnapshotDate
Disks == SUBSET Range(ClassIds)

(***************************************************************************)
(* The module's state                                                      *)
(***************************************************************************)
VARIABLES
  parsedData,          \* the parsed model object (its associations are mutable)
  disk,                \* the classes with a file under .jhipster/
  now,                 \* what new Date() returns during the run
  callsLeft,           \* how many calls of createEntities are still to come
  pc,                  \* where the current call stands
  thrown,              \* the exception the last call raised, or "none"
  databaseTypes,
  entities,
  onDiskEntities,
  entitiesToSuppress,
  classIndex,          \* fillEntities: how many classes the forEach has taken
  related,             \* setRelationshipOfEntity: the ids still to iterate
  returned,            \* the entity maps the calls returned, in order
  callData,            \* the associations as they were when the call began
  emitted              \* history: which push of the call served which
                       \* association, onto which entity, at which index

vars ==
  <<parsedData, disk, now, callsLeft, pc, thrown, databaseTypes, entities,
    onDiskEntities, entitiesToSuppress, classIndex, related, returned,
    callData, emitted>>

\* how many successive calls of createEntities a re-run model follows
MaxCalls == 2

NoObject == <<>>

NoneRelated == [from |-> <<>>, to |-> <<>>]

(***************************************************************************)
(* initializeEntities and setOptions                                       *)
(***************************************************************************)
setOptions(entity, entityName) ==
  LET e1 == IF entityName \in listDTO
            THEN [entity EXCEPT !.dto = "mapstruct"] ELSE entity
      e2 == IF entityName \in DOMAIN listPagination
            THEN [e1 EXCEPT !.pagination = listPagination[entityName]] ELSE e1
      e3 == IF entityName \in DOMAIN listService
            THEN [e2 EXCEPT !.service = listService[entityName]] ELSE e2
      e4 == IF entityName \in DOMAIN microserviceNames
            THEN [e3 EXCEPT !.microserviceName = microserviceNames[entityName]]
            ELSE e3
  IN  IF entityName \in searchEngines
      THEN [e4 EXCEPT !.searchEngine = "elasticsearch"] ELSE e4

\* the entity initializeEntities builds for the class at ordinal index
initializedEntity(onDisk, clock, classId, index) ==
  setOptions(
    [relationships |-> <<>>,
     fields |-> <<>>,
     changelogDate |-> getChangelogDate(onDisk, clock, classId, index),
     dto |-> getClass(classId).dto,
     pagination |-> getClass(classId).pagination,
     service |-> getClass(classId).service,
     microserviceName |-> getClass(classId).microserviceName,
     searchEngine |-> getClass(classId).searchEngine,
     javadoc |-> formatComment(getClass(classId).comment),
     entityTableName |-> snakeCase(getClass(classId).tableName)],
    getClass(classId).name)

initializeEntities(onDisk, clock) ==
  [classId \in Range(ClassIds) |->
     initializedEntity(onDisk, clock, classId,
                       (CHOOSE i \in DOMAIN ClassIds : ClassIds[i] = classId) - 1)]

\* readJSONFiles
readJSONFiles(files) ==
  [classId \in (Range(ClassIds) \cap files) |-> [changelogDate |-> SnapshotDate]]

(***************************************************************************)
(* setFieldsOfEntity and setValidationsOfField                             *)
(***************************************************************************)
RECURSIVE ValidationValues(_)
ValidationValues(ids) ==
  IF ids = <<>> THEN <<>>
  ELSE LET validation == getValidation(Head(ids))
           rest == ValidationValues(Tail(ids))
       IN  IF validation.name # <<"r","e","q","u","i","r","e","d">>
           THEN rest @@ (capitalize(validation.name) :> validation.value)
           ELSE rest

\* field['fieldValidateRules' + Name] is kept as fieldValidateRulesOf[Name]
setValidationsOfField(field, fieldId) ==
  IF Len(getField(fieldId).validations) = 0 THEN field
  ELSE [fieldValidateRules |->
          [i \in DOMAIN getField(fieldId).validations |->
             getValidation(getField(fieldId).validations[i]).name],
        fieldValidateRulesOf |-> ValidationValues(getField(fieldId).validations)]
       @@ field

fieldData(fieldId, count) ==
  LET f == getField(fieldId)
      d0 == [fieldId |-> count + 1, fieldName |-> camelCase(f.name),
             javadoc |-> formatComment(f.comment)]
      d1 == IF f.type \in DOMAIN types
            THEN [fieldType |-> types[f.type].name] @@ d0
            ELSE IF f.type \in DOMAIN enums
                 THEN [fieldType |-> enums[f.type].name,
                       fieldValues |-> Join(enums[f.type].values, <<",">>)]
                      @@ d0
                 ELSE d0
      typed == "fieldType" \in DOMAIN d1
      d2 == IF typed /\ d1.fieldType = "ImageBlob"
            THEN [fieldType |-> "byte[]", fieldTypeBlobContent |-> "image"] @@ d1
            ELSE IF typed /\ d1.fieldType \in {"Blob", "AnyBlob"}
                 THEN [fieldType |-> "byte[]", fieldTypeBlobContent |-> "any"] @@ d1
                 ELSE d1
  IN  setValidationsOfField(d2, fieldId)

RECURSIVE pushFields(_, _)
pushFields(list, fieldIds) ==
  IF fieldIds = <<>> THEN list
  ELSE pushFields(Append(list, fieldData(Head(fieldIds), Len(list))),
                  Tail(fieldIds))

setFieldsOfEntity(ents, classId) ==
  [ents EXCEPT ![classId].fields = pushFields(@, classes[classId].fields)]

(***************************************************************************)
(* getRelatedAssociations and setRelationshipOfEntity                      *)
(***************************************************************************)
\* faulty variant: the to group takes every association that ends at the class
getRelatedAssociations_AllIncoming(classId, associationIds, associations) ==
  [from |-> SelectSeq(associationIds,
                      LAMBDA id : associations[id].from = classId),
   to |-> SelectSeq(associationIds,
                    LAMBDA id : associations[id].to = classId)]

getRelatedAssociations(classId, associationIds, associations) ==
  [from |-> SelectSeq(associationIds,
                      LAMBDA id : associations[id].from = classId),
   to |-> SelectSeq(associationIds,
                    LAMBDA id : /\ associations[id].to = classId
                                /\ associations[id].injectedFieldInTo # <<>>)]

\* lib/helpers/association_helper is not part of the sources at hand: the
\* check either accepts the association or raises, and which of the two is
\* left open (verdict)
checkValidityOfAssociation(association, verdict) == verdict

\* lines 304-345: the relationship object of one iteration of the from loop;
\* count is entities[classId].relationships.length when the iteration begins
fromRelationship(association, count) ==
  LET fromName == getClass(association.from).name
      toName == getClass(association.to).name
      splitField == extractField(association.injectedFieldInFrom)
      otherSplitField == extractField(association.injectedFieldInTo)
      relationship == [relationshipId |-> count + 1,
                       relationshipType |-> association.type]
  IN  IF association.type = ONE_TO_ONE
      THEN [relationshipName |-> camelCase(splitField.relationshipName),
            otherEntityName |-> lowerFirst(camelCase(toName)),
            otherEntityField |-> lowerFirst(splitField.otherEntityField),
            ownerSide |-> TRUE,
            otherEntityRelationshipName |->
              lowerFirst(IF association.injectedFieldInTo # <<>>
                         THEN association.injectedFieldInTo
                         ELSE fromName)] @@ relationship
      ELSE IF association.type = ONE_TO_MANY
      THEN [relationshipName |->
              lowerFirst(camelCase(IF splitField.relationshipName # <<>>
                                   THEN splitField.relationshipName
                                   ELSE toName)),
            otherEntityName |-> lowerFirst(camelCase(toName)),
            otherEntityRelationshipName |->
              IF association.injectedFieldInTo = <<>>
              THEN lowerFirst(fromName)
              ELSE lowerFirst(otherSplitField.relationshipName)] @@ relationship
      ELSE IF /\ association.type = MANY_TO_ONE
              /\ association.injectedFieldInFrom # <<>>
      THEN [relationshipName |-> camelCase(splitField.relationshipName),
            otherEntityName |-> lowerFirst(camelCase(toName)),
            otherEntityField |-> lowerFirst(splitField.otherEntityField)]
           @@ relationship
      ELSE IF association.type = MANY_TO_MANY
      THEN [relationshipName |-> camelCase(splitField.relationshipName),
            otherEntityName |-> lowerFirst(camelCase(toName)),
            otherEntityField |-> lowerFirst(splitField.otherEntityField),
            ownerSide |-> TRUE] @@ relationship
      ELSE relationship

\* faulty variant: the synthesized record names the target class
otherSideRelationship_NamesTarget(association, count) ==
  LET toName == getClass(association.to).name
      otherSplitField == extractField(association.injectedFieldInTo)
  IN  [relationshipId |-> count + 1,
       relationshipName |-> camelCase(lowerFirst(toName)),
       otherEntityName |-> lowerFirst(camelCase(toName)),
       relationshipType |-> MANY_TO_ONE,
       otherEntityField |-> lowerFirst(otherSplitField.otherEntityField)]

\* lines 324-330: the record synthesized on the target of a ONE_TO_MANY
\* association that has no injectedFieldInTo
otherSideRelationship(association, count) ==
  LET fromName == getClass(association.from).name
      otherSplitField == extractField(association.injectedFieldInTo)
  IN  [relationshipId |-> count + 1,
       relationshipName |-> camelCase(lowerFirst(fromName)),
       otherEntityName |-> lowerFirst(camelCase(fromName)),
       relationshipType |-> MANY_TO_ONE,
       otherEntityField |-> lowerFirst(otherSplitField.otherEntityField)]

\* faulty variant: every ONE_TO_MANY association synthesizes
synthesizes_AnyOneToMany(association) == association.type = ONE_TO_MANY

\* line 321: does the from side synthesize the inverse record
synthesizes(association) ==
  /\ association.type = ONE_TO_MANY
  /\ association.injectedFieldInTo = <<>>

\* lines 296-347: one iteration of the from loop, the validity check passed
fromIteration(ents, associations, classId, associationId) ==
  LET association == associations[associationId]
      relationship ==
        fromRelationship(association, Len(ents[classId].relationships))
      ents1 == IF synthesizes(association)
               THEN [ents EXCEPT ![association.to].relationships =
                       Append(@, otherSideRelationship(association, Len(@)))]
               ELSE ents
      associations1 == IF synthesizes(association)
                       THEN [associations EXCEPT
                               ![associationId].type = MANY_TO_ONE]
                       ELSE associations
  IN  [entities |-> [ents1 EXCEPT ![classId].relationships =
                       Append(@, relationship)],
       associations |-> associations1]

\* line 364: association.injectedFieldInTo || _.lowerFirst(association.from);
\* a class id is one opaque character here
defaultedInjectedFieldInTo(association) ==
  IF association.injectedFieldInTo # <<>>
  THEN association.injectedFieldInTo
  ELSE lowerFirst(<<association.from>>)

\* lines 352-380: the relationship object of one iteration of the to loop
toRelationship(association, count) ==
  LET fromName == getClass(association.from).name
      relationship ==
        [relationshipId |-> count + 1,
         relationshipType |-> IF association.type = ONE_TO_MANY
                              THEN MANY_TO_ONE ELSE association.type]
  IN  IF association.type = ONE_TO_ONE
      THEN [relationshipName |->
              camelCase(extractField(association.injectedFieldInTo).relationshipName),
            otherEntityName |-> lowerFirst(camelCase(fromName)),
            ownerSide |-> FALSE,
            otherEntityRelationshipName |->
              lowerFirst(extractField(association.injectedFieldInFrom).relationshipName)]
           @@ relationship
      ELSE IF association.type = ONE_TO_MANY
      THEN LET splitField ==
                 extractField(defaultedInjectedFieldInTo(association))
           IN  [relationshipName |->
                  lowerFirst(camelCase(IF splitField.relationshipName # <<>>
                                       THEN splitField.relationshipName
                                       ELSE fromName)),
                otherEntityName |-> lowerFirst(camelCase(fromName)),
                otherEntityField |-> lowerFirst(splitField.otherEntityField)]
               @@ relationship
      ELSE IF /\ association.type = MANY_TO_ONE
              /\ association.injectedFieldInTo # <<>>
      THEN LET splitField == extractField(association.injectedFieldInTo)
           IN  [relationshipName |-> camelCase(splitField.relationshipName),
                otherEntityName |-> lowerFirst(camelCase(fromName)),
                otherEntityField |-> lowerFirst(splitField.otherEntityField)]
               @@ relationship
      ELSE IF association.type = MANY_TO_MANY
      THEN [relationshipName |->
              camelCase(extractField(association.injectedFieldInTo).relationshipName),
            otherEntityName |-> lowerFirst(camelCase(fromName)),
            ownerSide |-> FALSE,
            otherEntityRelationshipName |->
              lowerFirst(extractField(association.injectedFieldInFrom).relationshipName)]
           @@ relationship
      ELSE relationship

\* lines 348-382: one iteration of the to loop
toIteration(ents, associations, classId, associationId) ==
  LET association == associations[associationId]
      relationship ==
        toRelationship(association, Len(ents[classId].relationships))
      associations1 ==
        IF association.type = ONE_TO_MANY
        THEN [associations EXCEPT ![associationId].injectedFieldInTo =
                defaultedInjectedFieldInTo(association)]
        ELSE associations
  IN  [entities |-> [ents EXCEPT ![classId].relationships =
                       Append(@, relationship)],
       associations |-> associations1]

\* lines 204-206: delete entities[entity] for every suppressed entity
suppress(ents, toSuppress) ==
  [classId \in (DOMAIN ents \ Range(toSuppress)) |-> ents[classId]]

\* faulty variant: the name is compared as it is written
isUser_CaseSensitive(classId) == getClass(classId).name = USER

\* line 191
isUser(classId) == toLowerCase(getClass(classId).name) = USER

(***************************************************************************)
(* createEntities, step by step                                            *)
(***************************************************************************)
InitWith(maps, disks, clocks, nCalls) ==
  /\ parsedData \in {[associations |-> m] : m \in maps}
  /\ disk \in disks
  /\ now \in clocks
  /\ callsLeft = nCalls
  /\ pc = "idle"
  /\ thrown = "none"
  /\ databaseTypes = "undefined"
  /\ entities = NoObject
  /\ onDiskEntities = NoObject
  /\ entitiesToSuppress = <<>>
  /\ classIndex = 0
  /\ related = NoneRelated
  /\ returned = <<>>
  /\ callData = parsedData.associations
  /\ emitted = <<>>

\* lines 42-49: merge the args, reject missing input, init()
Call ==
  /\ pc \in {"idle", "returned", "failed"}
  /\ callsLeft > 0
  /\ \E hasParsedData \in BOOLEAN, types_ \in DatabaseTypes \cup {"undefined"} :
       IF ~hasParsedData \/ types_ = "undefined"
       THEN /\ pc' = "failed"
            /\ thrown' = "NullPointer"
            /\ UNCHANGED <<databaseTypes, entities, onDiskEntities,
                           entitiesToSuppress, emitted>>
       ELSE /\ pc' = "checkNoSQLModeling"
            /\ thrown' = "none"
            /\ databaseTypes' = types_
            /\ entities' = NoObject
            /\ onDiskEntities' = NoObject
            /\ entitiesToSuppress' = <<>>
            /\ emitted' = <<>>
  /\ callsLeft' = callsLeft - 1
  /\ callData' = parsedData.associations
  /\ classIndex' = 0
  /\ related' = NoneRelated
  /\ UNCHANGED <<parsedData, disk, now, returned>>

\* lines 70-75
CheckNoSQLModeling ==
  /\ pc = "checkNoSQLModeling"
  /\ IF /\ isNoSQL(databaseTypes)
        /\ Len(Keys(parsedData.associations, AssociationIds)) # 0
     THEN pc' = "failed" /\ thrown' = "NoSQLModeling"
     ELSE pc' = "readJSONFiles" /\ thrown' = thrown
  /\ UNCHANGED <<parsedData, disk, now, callsLeft, databaseTypes, entities,
                 onDiskEntities, entitiesToSuppress, classIndex, related,
                 returned, callData, emitted>>

\* lines 77-86
ReadJSONFiles ==
  /\ pc = "readJSONFiles"
  /\ onDiskEntities' = readJSONFiles(disk)
  /\ pc' = "initializeEntities"
  /\ UNCHANGED <<parsedData, disk, now, callsLeft, thrown, databaseTypes, entities,
                 entitiesToSuppress, classIndex, related, returned, callData,
                 emitted>>

\* lines 88-112
InitializeEntities ==
  /\ pc = "initializeEntities"
  /\ entities' = initializeEntities(onDiskEntities, now)
  /\ pc' = "fillEntities"
  /\ UNCHANGED <<parsedData, disk, now, callsLeft, thrown, databaseTypes,
                 onDiskEntities, entitiesToSuppress, classIndex, related,
                 returned, callData, emitted>>

LoopsDone == related.from = <<>> /\ related.to = <<>>

\* lines 184-201 and 292-295: the forEach callback takes the next class, up
\* to the point where setRelationshipOfEntity has its two id lists
FillEntity ==
  /\ pc = "fillEntities"
  /\ LoopsDone
  /\ classIndex < Len(ClassIds)
  /\ LET classId == ClassIds[classIndex + 1]
     IN  /\ entitiesToSuppress' = IF isUser(classId)
                                  THEN Append(entitiesToSuppress, classId)
                                  ELSE entitiesToSuppress
         /\ entities' = setFieldsOfEntity(entities, classId)
         /\ related' = getRelatedAssociations(
                         classId,
                         Keys(parsedData.associations, AssociationIds),
                         parsedData.associations)
  /\ classIndex' = classIndex + 1
  /\ UNCHANGED <<parsedData, disk, now, callsLeft, pc, thrown, databaseTypes,
                 onDiskEntities, returned, callData, emitted>>

\* lines 296-347: one iteration of associations.from.forEach
FromStep ==
  /\ pc = "fillEntities"
  /\ related.from # <<>>
  /\ LET classId == ClassIds[classIndex]
         associationId == Head(related.from)
         association == parsedData.associations[associationId]
         after == fromIteration(entities, parsedData.associations, classId,
                                associationId)
     IN  \E verdict \in BOOLEAN :
           IF checkValidityOfAssociation(association, verdict)
           THEN /\ entities' = after.entities
                /\ parsedData' = [parsedData EXCEPT
                                    !.associations = after.associations]
                /\ related' = [related EXCEPT !.from = Tail(@)]
                /\ emitted' =
                     emitted
                       \o (IF synthesizes(association)
                           THEN <<[association |-> associationId,
                                   entity |-> association.to,
                                   side |-> "synthesized",
                                   position |->
                                     Len(entities[association.to].relationships) + 1]>>
                           ELSE <<>>)
                       \o <<[association |-> associationId,
                             entity |-> classId, side |-> "from",
                             position |->
                               Len(after.entities[classId].relationships)]>>
                /\ UNCHANGED <<pc, thrown>>
           ELSE /\ pc' = "failed"
                /\ thrown' = "InvalidAssociation"
                /\ UNCHANGED <<entities, parsedData, related, emitted>>
  /\ UNCHANGED <<disk, now, callsLeft, databaseTypes, onDiskEntities,
                 entitiesToSuppress, classIndex, returned, callData>>

\* lines 348-382: one iteration of associations.to.forEach
ToStep ==
  /\ pc = "fillEntities"
  /\ related.from = <<>>
  /\ related.to # <<>>
  /\ LET classId == ClassIds[classIndex]
         associationId == Head(related.to)
         after == toIteration(entities, parsedData.associations, classId,
                              associationId)
     IN  /\ entities' = after.entities
         /\ parsedData' = [parsedData EXCEPT !.associations = after.associations]
         /\ emitted' = Append(emitted,
                              [association |-> associationId,
                               entity |-> classId, side |-> "to",
                               position |->
                                 Len(after.entities[classId].relationships)])
  /\ related' = [related EXCEPT !.to = Tail(@)]
  /\ UNCHANGED <<disk, now, callsLeft, pc, thrown, databaseTypes, onDiskEntities,
                 entitiesToSuppress, classIndex, returned, callData>>

\* lines 204-206 and 54: the suppressed entities go, the map is returned
Return ==
  /\ pc = "fillEntities"
  /\ LoopsDone
  /\ classIndex = Len(ClassIds)
  /\ entities' = suppress(entities, entitiesToSuppress)
  /\ returned' = Append(returned, entities')
  /\ pc' = "returned"
  /\ UNCHANGED <<parsedData, disk, now, callsLeft, thrown, databaseTypes,
                 onDiskEntities, entitiesToSuppress, classIndex, related,
                 callData, emitted>>

Next ==
  \/ Call
  \/ CheckNoSQLModeling
  \/ ReadJSONFiles
  \/ InitializeEntities
  \/ FillEntity
  \/ FromStep
  \/ ToStep
  \/ Return

\* one call, on every model of at most MaxAssociations associations
Init == InitWith(AssociationMaps, {{}}, {Clock0}, 1)

Spec == Init /\ [][Next]_vars

\* MaxCalls successive calls with the same parsed-model object
InitRerun == InitWith(AssociationMaps, {{}}, {Clock0}, MaxCalls)

SpecRerun == InitRerun /\ [][Next]_vars

\* one call on a model without associations, for every clock and every
\* content of .jhipster/
InitDate == InitWith({NoObject}, Disks, Clocks, 1)

NextDate ==
  \/ Call
  \/ CheckNoSQLModeling
  \/ ReadJSONFiles
  \/ InitializeEntities
  \/ FillEntity
  \/ Return

SpecDate == InitDate /\ [][NextDate]_vars

(***************************************************************************)
(* Properties                                                              *)
(***************************************************************************)
\* the classes the warning of fillEntities is about
NamedUser(classId) == toLowerCase(getClass(classId).name) = <<"u","s","e","r">>

\* association a was ONE_TO_MANY without injectedFieldInTo when the call began
OneToManyWithoutInverse(a) ==
  /\ callData[a].type = "one-to-many"
  /\ callData[a].injectedFieldInTo = <<>>

\* every class went through the forEach callback; nothing is suppressed yet
Resolved == pc = "fillEntities" /\ LoopsDone /\ classIndex = Len(ClassIds)

\* the pushes of the call that served association a
PushesOf(a) == {i \in DOMAIN emitted : emitted[i].association = a}

PushesOfSide(a, side) == {i \in PushesOf(a) : emitted[i].side = side}

\* the pushes of a whose record is on an entity of the current map
KeptPushesOf(a) == {i \in PushesOf(a) : emitted[i].entity \in DOMAIN entities}

\* the relationship record a push appended
RecordOf(i) == entities[emitted[i].entity].relationships[emitted[i].position]

\* the history accounts for every relationship record of the map
HistoryMatchesEntities ==
  \A classId \in DOMAIN entities :
    Len(entities[classId].relationships) =
      Cardinality({i \in DOMAIN emitted : emitted[i].entity = classId})

\* C1 as stated: in the returned map every association accounts for one or
\* two relationship records, also when an endpoint is the User class
C1_OneOrTwoRecordsAlways ==
  pc = "returned" =>
    \A a \in DOMAIN callData : Cardinality(KeptPushesOf(a)) \in {1, 2}

\* C1 amended: in the returned map an association accounts for at most two
\* relationship records; for one or two when its from class is not User, and
\* for none or one when its from class is User, whose entity is removed
\* together with the from-side record
C1_RecordsPerAssociation ==
  pc = "returned" =>
    /\ HistoryMatchesEntities
    /\ \A a \in DOMAIN callData :
         LET n == Cardinality(KeptPushesOf(a))
         IN  /\ n <= 2
             /\ ~NamedUser(callData[a].from) => n \in {1, 2}
             /\ NamedUser(callData[a].from) => n \in {0, 1}

C1_Witness ==
  /\ pc = "returned"
  /\ \E a \in DOMAIN callData :
       /\ ~NamedUser(callData[a].from)
       /\ ~NamedUser(callData[a].to)
       /\ Cardinality(KeptPushesOf(a)) = 2

\* C2 as stated: once every class is resolved, every association has put one
\* record on its from entity and at least one on its to entity, whether or
\* not it has an injectedFieldInTo
C2_RecordOnBothEntitiesAlways ==
  Resolved =>
    \A a \in DOMAIN callData :
      /\ Cardinality(PushesOfSide(a, "from")) = 1
      /\ Cardinality(PushesOfSide(a, "to") \cup PushesOfSide(a, "synthesized")) >= 1

\* C2 amended: once every class is resolved, every association has put
\* exactly one record on its from entity; on its to entity it has put one
\* to-side record exactly when it has an injectedFieldInTo, one synthesized
\* record exactly when it was ONE_TO_MANY without injectedFieldInTo, and
\* nothing otherwise
C2_RecordsPerEntity ==
  Resolved =>
    /\ HistoryMatchesEntities
    /\ \A a \in DOMAIN callData :
         /\ Cardinality(PushesOfSide(a, "from")) = 1
         /\ \A i \in PushesOfSide(a, "from") : emitted[i].entity = callData[a].from
         /\ Cardinality(PushesOfSide(a, "to")) =
              IF callData[a].injectedFieldInTo # <<>> THEN 1 ELSE 0
         /\ Cardinality(PushesOfSide(a, "synthesized")) =
              IF OneToManyWithoutInverse(a) THEN 1 ELSE 0
         /\ \A i \in PushesOfSide(a, "to") \cup PushesOfSide(a, "synthesized") :
              emitted[i].entity = callData[a].to

C2_Witness ==
  /\ Resolved
  /\ \E a \in DOMAIN callData :
       /\ callData[a].injectedFieldInTo = <<>>
       /\ callData[a].type # ONE_TO_MANY
       /\ callData[a].from # callData[a].to
       /\ Cardinality(PushesOfSide(a, "from")) = 1
       /\ entities[callData[a].to].relationships = <<>>

EntityNameOf(classId) == lowerFirst(getClass(classId).name)

\* C4: a ONE_TO_MANY association without injectedFieldInTo, once its from
\* class is processed, has a ONE_TO_MANY record on the source entity whose
\* otherEntityRelationshipName is the source class name, exactly one
\* synthesized MANY_TO_ONE record on the target entity whose relationshipName
\* and otherEntityName are the source class name, the stored type
\* MANY_TO_ONE, and no to-side record; until then its stored type is
\* unchanged and it has no record
C4_SynthesizedInverse ==
  \A a \in DOMAIN callData :
    (pc \in {"fillEntities", "returned"} /\ OneToManyWithoutInverse(a)) =>
      IF PushesOfSide(a, "from") = {}
      THEN /\ parsedData.associations[a].type = ONE_TO_MANY
           /\ PushesOf(a) = {}
      ELSE /\ parsedData.associations[a].type = MANY_TO_ONE
           /\ Cardinality(PushesOfSide(a, "from")) = 1
           /\ Cardinality(PushesOfSide(a, "synthesized")) = 1
           /\ PushesOfSide(a, "to") = {}
           /\ \A i \in PushesOfSide(a, "from") :
                /\ emitted[i].entity = callData[a].from
                /\ emitted[i].entity \in DOMAIN entities =>
                     /\ RecordOf(i).relationshipType = ONE_TO_MANY
                     /\ RecordOf(i).otherEntityRelationshipName =
                          EntityNameOf(callData[a].from)
           /\ \A i \in PushesOfSide(a, "synthesized") :
                /\ emitted[i].entity = callData[a].to
                /\ emitted[i].entity \in DOMAIN entities =>
                     /\ RecordOf(i).relationshipType = MANY_TO_ONE
                     /\ RecordOf(i).relationshipName =
                          EntityNameOf(callData[a].from)
                     /\ RecordOf(i).otherEntityName =
                          EntityNameOf(callData[a].from)

\* the to class was processed before the from class, and the map returned
C4_Witness ==
  /\ pc = "returned"
  /\ \E a \in DOMAIN callData :
       /\ OneToManyWithoutInverse(a)
       /\ callData[a].from = "c3"
       /\ callData[a].to = "c1"
       /\ Cardinality(PushesOfSide(a, "synthesized")) = 1
       /\ Len(entities["c1"].relationships) = 1

IsDigit(c) == \E i \in DOMAIN Digits : Digits[i] = c

DigitValue(c) == (CHOOSE i \in DOMAIN Digits : Digits[i] = c) - 1

\* two strings of digits of the same length, the first the smaller number
LessDigits(s1, s2) ==
  /\ Len(s1) = Len(s2)
  /\ \A k \in DOMAIN s1 : IsDigit(s1[k]) /\ IsDigit(s2[k])
  /\ \E k \in DOMAIN s1 :
       /\ \A j \in 1..(k - 1) : s1[j] = s2[j]
       /\ DigitValue(s1[k]) < DigitValue(s2[k])

\* YYYYMMDDHHMMSS of clock + increment seconds (within the day)
ExpectedDate(clock, increment) ==
  LET seconds == clock.second + increment
      minutes == clock.minute + (seconds \div 60)
      hours == clock.hour + (minutes \div 60)
  IN  NumberToString(clock.year)
        \o PadTwo(NumberToString(clock.month))
        \o PadTwo(NumberToString(clock.day))
        \o PadTwo(NumberToString(hours))
        \o PadTwo(NumberToString(minutes % 60))
        \o PadTwo(NumberToString(seconds % 60))

\* C5: two classes without a snapshot, at ordinals i < j, get the 14-digit
\* dates of base time + i and base time + j seconds, the first the smaller
C5_IncreasingChangelogDates ==
  pc \in {"fillEntities", "returned"} =>
    \A i, j \in DOMAIN ClassIds :
      (/\ i < j
       /\ {ClassIds[i], ClassIds[j]} \subseteq DOMAIN entities
       /\ {ClassIds[i], ClassIds[j]} \cap DOMAIN onDiskEntities = {}) =>
        /\ Len(entities[ClassIds[i]].changelogDate) = 14
        /\ Len(entities[ClassIds[j]].changelogDate) = 14
        /\ entities[ClassIds[i]].changelogDate = ExpectedDate(now, i - 1)
        /\ entities[ClassIds[j]].changelogDate = ExpectedDate(now, j - 1)
        /\ LessDigits(entities[ClassIds[i]].changelogDate,
                      entities[ClassIds[j]].changelogDate)

\* C6: a call that fails has created no entity record and has modified no
\* association (a call that fails on missing input never reaches init)
C6_AllOrNothing ==
  pc = "failed" =>
    \/ thrown = "NullPointer"
    \/ /\ entities = NoObject
       /\ parsedData.associations = callData

\* the class at the other end of the association a push served
OtherEnd(i) ==
  IF emitted[i].side = "from"
  THEN callData[emitted[i].association].to
  ELSE callData[emitted[i].association].from

\* C7: while the classes are being resolved no entity is removed; the
\* returned map holds an entity for exactly the classes not named user, each
\* with as many fields as its class declares, and every relationship record
\* that was put on one of them is still there, those toward User included
C7_UserSuppression ==
  /\ pc = "fillEntities" =>
       /\ DOMAIN entities = Range(ClassIds)
       /\ \A k \in 1..classIndex :
            Len(entities[ClassIds[k]].fields) = Len(classes[ClassIds[k]].fields)
  /\ pc = "returned" =>
       /\ DOMAIN entities = {classId \in Range(ClassIds) : ~NamedUser(classId)}
       /\ \A classId \in DOMAIN entities :
            Len(entities[classId].fields) = Len(classes[classId].fields)
       /\ HistoryMatchesEntities
       /\ \A i \in DOMAIN emitted :
            ~NamedUser(emitted[i].entity) =>
              /\ emitted[i].position <= Len(entities[emitted[i].entity].relationships)
              /\ (NamedUser(OtherEnd(i)) /\ "otherEntityName" \in DOMAIN RecordOf(i))
                   => RecordOf(i).otherEntityName = <<"u","s","e","r">>

C7_Witness ==
  /\ pc = "returned"
  /\ \E i \in DOMAIN emitted :
       /\ ~NamedUser(emitted[i].entity)
       /\ NamedUser(OtherEnd(i))
       /\ "otherEntityName" \in DOMAIN RecordOf(i)
       /\ entities[emitted[i].entity].fields # <<>>

\* C8: a MANY_TO_ONE association puts a from-side record only when it has an
\* injectedFieldInFrom and a to-side record only when it has an
\* injectedFieldInTo
C8_NoRecordWithoutDescriptor ==
  \A a \in DOMAIN callData :
    callData[a].type = MANY_TO_ONE =>
      /\ callData[a].injectedFieldInFrom = <<>> => PushesOfSide(a, "from") = {}
      /\ callData[a].injectedFieldInTo = <<>> => PushesOfSide(a, "to") = {}

\* C9: the from-side record of a ONE_TO_ONE association is the owner side
\* and its otherEntityRelationshipName is the relationship name decoded from
\* injectedFieldInTo, or the target class name when there is none (with or
\* without a lower-case first letter)
C9_OneToOneOtherName ==
  \A a \in DOMAIN callData :
    callData[a].type = ONE_TO_ONE =>
      \A i \in PushesOfSide(a, "from") :
        emitted[i].entity \in DOMAIN entities =>
          LET expected ==
                IF callData[a].injectedFieldInTo # <<>>
                THEN extractField(callData[a].injectedFieldInTo).relationshipName
                ELSE getClass(callData[a].to).name
          IN  /\ RecordOf(i).ownerSide = TRUE
              /\ RecordOf(i).otherEntityRelationshipName
                   \in {expected, lowerFirst(expected)}

\* a relationship record without its relationshipId
WithoutId(relationship) ==
  [key \in DOMAIN relationship \ {"relationshipId"} |-> relationship[key]]

RelationshipsOf(map, classId) ==
  [k \in DOMAIN map[classId].relationships |->
     WithoutId(map[classId].relationships[k])]

\* C10: a second call with the same parsed-model object returns, for every
\* class, the relationship records the first call returned
C10_RerunStable ==
  Len(returned) >= 2 =>
    /\ DOMAIN returned[2] = DOMAIN returned[1]
    /\ \A classId \in DOMAIN returned[1] :
         RelationshipsOf(returned[2], classId) = RelationshipsOf(returned[1], classId)

====
